---- MODULE Spec2Model ----
(***************************************************************************)
(* Transit Talk survey dashboard: the Flask variant (src/app.py) and the   *)
(* Streamlit variant (src/dashboard.py).                                   *)
(*                                                                         *)
(* Text is a sequence of one-character strings.  A CSV cell is text; the   *)
(* empty text is a missing cell.  A mean is an exact fraction <<sum, n>>,  *)
(* with NaN the fraction <<0, 0>>.                                         *)
(***************************************************************************)
EXTENDS Integers, Sequences, FiniteSets, TLC

VARIABLES variant, sheet, pc, df, steps, metrics, key_insights, plots,
          cross_tabs, input, output, cache, last_load

vars == <<variant, sheet, pc, df, steps, metrics, key_insights, plots,
          cross_tabs, input, output, cache, last_load>>

(***************************************************************************)
(* Characters and Python string operations                                 *)
(***************************************************************************)
SP == " "
FFFD == "U+FFFD"
Ellipsis == <<".", ".", ".">>
\* app.py:46 holds the three characters U+00D4 U+00F8 U+03A9 where
\* dashboard.py:81 holds the single character U+FFFD.
Mojibake == <<"U+00D4", "U+00F8", "U+03A9">>

Take(s, n) == SubSeq(s, 1, IF n < Len(s) THEN n ELSE Len(s))

\* str.strip(): what lies between the first and the last non-space character
Strip(s) ==
    LET kept == {i \in 1 .. Len(s) : s[i] # SP}
    IN  IF kept = {} THEN <<>>
        ELSE SubSeq(s, CHOOSE i \in kept : \A j \in kept : i <= j,
                       CHOOSE i \in kept : \A j \in kept : j <= i)

StartsWithAt(s, i, old) ==
    /\ i + Len(old) - 1 <= Len(s)
    /\ SubSeq(s, i, i + Len(old) - 1) = old

\* n steps of the left-to-right scan of str.replace from position i: a step
\* at a match emits `new` and skips the match, any other step emits the
\* character; the steps of a range are those of its two halves
RECURSIVE ReplaceScan(_, _, _, _, _)
ReplaceScan(s, old, new, i, n) ==
    IF n = 0 \/ i > Len(s) THEN [out |-> <<>>, pos |-> i]
    ELSE IF n = 1
    THEN IF StartsWithAt(s, i, old) THEN [out |-> new, pos |-> i + Len(old)]
         ELSE [out |-> <<s[i]>>, pos |-> i + 1]
    ELSE LET first  == ReplaceScan(s, old, new, i, n \div 2)
             second == ReplaceScan(s, old, new, first.pos, n - n \div 2)
         IN  [out |-> first.out \o second.out, pos |-> second.pos]

\* str.replace(old, new): the non-overlapping matches, leftmost first
Replace(s, old, new) == ReplaceScan(s, old, new, 1, Len(s)).out

TitleLimit == 80
TitleKeep == 77
LabelLimit == 50

\* the glyph each variant replaces by a hyphen
Glyph(v) == IF v = "web" THEN Mojibake ELSE <<FFFD>>

TruncateTitle(t) ==
    IF Len(t) > TitleLimit THEN Take(t, TitleKeep) \o Ellipsis ELSE t

\* the title of a chart, from the column name
clean_title(v, column) ==
    TruncateTitle(Replace(Replace(Strip(column), Glyph(v), <<"-">>),
                          <<SP, SP>>, <<SP>>))

\* the question text of an insight (app.py only)
clean_question(column) ==
    Replace(Replace(Strip(column), <<FFFD>>, <<"-">>), <<SP, SP>>, <<SP>>)

\* one entry of display_labels
display_label(label) ==
    IF Len(label) > LabelLimit THEN Take(label, LabelLimit) \o Ellipsis
    ELSE label

(***************************************************************************)
(* int((top_count / len(df)) * 100) in IEEE-754 binary64.                   *)
(* A positive double is [bits, exp]: bits are the 53 significand bits, most*)
(* significant first (bits[1] = 1), and the value is the integer they      *)
(* spell times 2^(-exp).                                                   *)
(***************************************************************************)
Precision == 53

RECURSIVE Pow2(_)
Pow2(n) == IF n = 0 THEN 1 ELSE 2 * Pow2(n - 1)

\* the least s with a * 2^s >= b
RECURSIVE NormShift(_, _)
NormShift(a, b) == IF a >= b THEN 0 ELSE 1 + NormShift(2 * a, b)

\* the next n quotient bits of r / b (r < b) by long division, and the
\* remainder left; the bits of a range are those of its two halves
RECURSIVE DivBits(_, _, _)
DivBits(r, b, n) ==
    IF n = 0 THEN [bits |-> <<>>, rem |-> r]
    ELSE IF n = 1
    THEN IF 2 * r >= b THEN [bits |-> <<1>>, rem |-> 2 * r - b]
         ELSE [bits |-> <<0>>, rem |-> 2 * r]
    ELSE LET first  == DivBits(r, b, n \div 2)
             second == DivBits(first.rem, b, n - n \div 2)
         IN  [bits |-> first.bits \o second.bits, rem |-> second.rem]

\* bits + 1; an all-ones significand carries into one more leading bit
Increment(bits) ==
    LET zeros == {i \in 1 .. Len(bits) : bits[i] = 0}
    IN  IF zeros = {} THEN <<1>> \o [i \in 1 .. Len(bits) |-> 0]
        ELSE LET p == CHOOSE i \in zeros : \A j \in zeros : j <= i
             IN  [i \in 1 .. Len(bits) |->
                    IF i < p THEN bits[i] ELSE IF i = p THEN 1 ELSE 0]

\* round a significand of more than Precision bits to Precision bits, ties to
\* even; sticky says that nonzero bits lie beyond those given
RoundNearestEven(bits, exp, sticky) ==
    LET kept  == Take(bits, Precision)
        drop  == Len(bits) - Precision
        guard == bits[Precision + 1]
        rest  == sticky \/ \E i \in (Precision + 2) .. Len(bits) : bits[i] = 1
        up    == guard = 1 /\ (rest \/ kept[Precision] = 1)
        inc   == IF up THEN Increment(kept) ELSE kept
    IN  IF Len(inc) > Precision
        THEN [bits |-> Take(inc, Precision), exp |-> exp - drop - 1]
        ELSE [bits |-> inc, exp |-> exp - drop]

\* a / b for integers 1 <= a <= b
FloatDiv(a, b) ==
    LET s == NormShift(a, b)
        d == DivBits(a * Pow2(s) - b, b, Precision)
    IN  RoundNearestEven(<<1>> \o d.bits, Precision + s, d.rem # 0)

\* the integer that bits[lo .. hi] spell
RECURSIVE BitsToInt(_, _, _)
BitsToInt(bits, lo, hi) ==
    IF lo > hi THEN 0
    ELSE IF lo = hi THEN bits[lo]
    ELSE LET mid == (lo + hi) \div 2
         IN  BitsToInt(bits, lo, mid) * Pow2(hi - mid) + BitsToInt(bits, mid + 1, hi)

\* the low `width` binary digits of n, most significant first
IntToBits(n, width) == [i \in 1 .. width |-> (n \div Pow2(width - i)) % 2]

\* the number of binary digits of n
RECURSIVE BitLength(_)
BitLength(n) == IF n = 0 THEN 0 ELSE 1 + BitLength(n \div 2)

\* the exact product of a Precision-bit significand and an integer k < 2^11:
\* schoolbook multiplication over limbs of LimbBits bits
LimbBits == 20

MulBits(bits, k) ==
    LET n    == Len(bits)
        base == Pow2(LimbBits)
        p0   == BitsToInt(bits, n - LimbBits + 1, n) * k
        p1   == BitsToInt(bits, n - 2 * LimbBits + 1, n - LimbBits) * k + p0 \div base
        p2   == BitsToInt(bits, 1, n - 2 * LimbBits) * k + p1 \div base
    IN  IntToBits(p2, BitLength(p2)) \o IntToBits(p1 % base, LimbBits)
            \o IntToBits(p0 % base, LimbBits)

\* x * k for a double x and an integer 2 <= k < 2^11
FloatMulInt(x, k) == RoundNearestEven(MulBits(x.bits, k), x.exp, FALSE)

\* int(x): truncation toward zero of a positive double below 2^31
FloatToInt(x) ==
    IF x.exp >= Len(x.bits) THEN 0
    ELSE BitsToInt(x.bits, 1, Len(x.bits) - x.exp)

\* 'percentage': int(percentage) of an insight
percentage(top_count, total) ==
    FloatToInt(FloatMulInt(FloatDiv(top_count, total), 100))

(***************************************************************************)
(* Column names                                                            *)
(***************************************************************************)
N_timestamp == <<"t", "i", "m", "e", "s", "t", "a", "m", "p">>
N_Timestamp == <<"T", "i", "m", "e", "s", "t", "a", "m", "p">>
N_EmailAddress == <<"E", "m", "a", "i", "l", " ", "A", "d", "d", "r", "e", "s", "s">>
N_email == <<"e", "m", "a", "i", "l">>
N_Email == <<"E", "m", "a", "i", "l">>
N_Name == <<"N", "a", "m", "e">>
N_Age == <<"A", "g", "e">>
N_AgeSp == <<"A", "g", "e", " ">>
N_Resident == <<"A", "r", "e", " ", "y", "o", "u", " ", "a", " ", "r", "e", "s", "i", "d", "e", "n", "t", " ", "o", "f", " ", "A", "h", "m", "e", "d", "a", "b", "a", "d", " ", "?">>
N_age == <<"a", "g", "e">>
N_EMAIL == <<"E", "M", "A", "I", "L">>
N_TIMESTAMP == <<"T", "I", "M", "E", "S", "T", "A", "M", "P">>

\* excluded_cols of each variant
excluded_cols(v) ==
    IF v = "web"
    THEN {N_timestamp, N_Timestamp, N_EmailAddress, N_email, N_Email, N_Name,
          N_Age, N_AgeSp, N_Resident}
    ELSE {N_timestamp, N_Timestamp, N_EmailAddress, N_email, N_Email}

(***************************************************************************)
(* The table: pd.read_csv and the pandas operations the handlers use       *)
(***************************************************************************)
Digits == <<"0", "1", "2", "3", "4", "5", "6", "7", "8", "9">>

IsMissing(cell) == cell = <<>>

IsDigit(ch) == \E i \in 1 .. Len(Digits) : Digits[i] = ch

IsNumericLiteral(cell) ==
    cell # <<>> /\ \A i \in 1 .. Len(cell) : IsDigit(cell[i])

DigitValue(ch) == (CHOOSE i \in 1 .. Len(Digits) : Digits[i] = ch) - 1

RECURSIVE NumVal(_, _)
NumVal(cell, acc) ==
    IF cell = <<>> THEN acc
    ELSE NumVal(Tail(cell), 10 * acc + DigitValue(Head(cell)))

\* the dtype read_csv infers for a column with at least one row
InferDtype(cells) ==
    IF \A i \in 1 .. Len(cells) : IsMissing(cells[i]) THEN "float64"
    ELSE IF \A i \in 1 .. Len(cells) :
                IsMissing(cells[i]) \/ IsNumericLiteral(cells[i])
         THEN IF \E i \in 1 .. Len(cells) : IsMissing(cells[i])
              THEN "float64" ELSE "int64"
         ELSE "object"

Unset == [loaded |-> "unset", columns |-> <<>>, nrows |-> 0]
None == [loaded |-> "none", columns |-> <<>>, nrows |-> 0]

\* pd.read_csv(GOOGLE_SHEET_URL): a body without columns raises
read_csv(s) ==
    IF s = <<>> THEN None
    ELSE [loaded |-> "frame",
          columns |-> [i \in 1 .. Len(s) |->
                         [name |-> s[i].name,
                          dtype |-> InferDtype(s[i].cells),
                          cells |-> s[i].cells]],
          nrows |-> Len(s[1].cells)]

\* load_survey_data(): the fetch fails or the parse raises -> None
load_survey_data(s, fetched) == IF fetched THEN read_csv(s) ELSE None

\* @st.cache_data(ttl=10): one slot, the returned value (None too) and the
\* seconds since it was stored, counted up to the first value beyond the ttl
TTL == 10
SleepSeconds == 10
Empty == [present |-> FALSE, value |-> Unset, age |-> 0]
Stored(value) == [present |-> TRUE, value |-> value, age |-> 0]
Older(c, seconds) ==
    IF c.present
    THEN [c EXCEPT !.age = IF c.age + seconds > TTL THEN TTL + 1
                            ELSE c.age + seconds]
    ELSE c

cache_valid_forever(c) == c.present

\* the entry is served until ttl seconds have passed since it was stored
cache_valid(c) == c.present /\ c.age < TTL

\* what the last call of the cached loader met and did
NoLoad == [kind |-> "none", present |-> FALSE, age |-> 0]
Hit(c) == [kind |-> "hit", present |-> TRUE, age |-> c.age]
Fetch(c) == [kind |-> "fetch", present |-> c.present, age |-> c.age]

\* dtype in [np.int64, np.float64]; select_dtypes(include=[np.number])
IsNumberDtype(d) == d \in {"int64", "float64"}

\* [col for col in df.columns if col not in excluded_cols]
all_question_cols(v, d) ==
    SelectSeq(d.columns, LAMBDA c : c.name \notin excluded_cols(v))

\* select_dtypes(include=[np.number]) less the excluded columns
numerical_cols(v, d) ==
    SelectSeq(d.columns,
              LAMBDA c : IsNumberDtype(c.dtype) /\ c.name \notin excluded_cols(v))

\* select_dtypes(include=['object']) less the excluded columns
categorical_cols(v, d) ==
    SelectSeq(d.columns,
              LAMBDA c : c.dtype = "object" /\ c.name \notin excluded_cols(v))

NonMissing(cells) == SelectSeq(cells, LAMBDA c : ~IsMissing(c))

RECURSIVE SumVals(_)
SumVals(cells) ==
    IF cells = <<>> THEN 0 ELSE NumVal(Head(cells), 0) + SumVals(Tail(cells))

NaN == <<0, 0>>
IsNaN(f) == f[2] = 0

\* Series.mean(): missing cells are skipped; NaN when none is left
column_mean(cells) ==
    LET present == NonMissing(cells)
    IN  IF present = <<>> THEN NaN ELSE <<SumVals(present), Len(present)>>

RECURSIVE FracSum(_)
FracSum(fs) ==
    IF fs = <<>> THEN <<0, 1>>
    ELSE LET r == FracSum(Tail(fs))
             h == Head(fs)
         IN  <<h[1] * r[2] + r[1] * h[2], h[2] * r[2]>>

\* the mean of a Series of means: NaN entries are skipped
series_mean(fs) ==
    LET valid == SelectSeq(fs, LAMBDA f : ~IsNaN(f))
        s     == FracSum(valid)
    IN  IF valid = <<>> THEN NaN ELSE <<s[1], s[2] * Len(valid)>>

\* df[numerical_cols].mean().mean()
mean_of_means(cols) ==
    series_mean([i \in 1 .. Len(cols) |-> column_mean(cols[i].cells)])

\* f"{avg_rating:.2f}": hundredths, ties to even
Format2f(f) ==
    IF IsNaN(f) THEN [nan |-> TRUE, hundredths |-> 0]
    ELSE LET q == (100 * f[1]) \div f[2]
             r == (100 * f[1]) % f[2]
             up == 2 * r > f[2] \/ (2 * r = f[2] /\ q % 2 = 1)
         IN  [nan |-> FALSE, hundredths |-> IF up THEN q + 1 ELSE q]

\* the distinct non-missing values, in order of first appearance
RECURSIVE Uniques(_, _)
Uniques(cells, acc) ==
    IF cells = <<>> THEN acc
    ELSE IF IsMissing(Head(cells)) \/ \E i \in 1 .. Len(acc) : acc[i] = Head(cells)
         THEN Uniques(Tail(cells), acc)
         ELSE Uniques(Tail(cells), Append(acc, Head(cells)))

CountOf(cells, v) == Cardinality({i \in 1 .. Len(cells) : cells[i] = v})

\* where a stable descending sort puts x: after every entry counting >= x
InsertRankedTiesFirst(sorted, x) ==
    LET before == SelectSeq(sorted, LAMBDA e : e.count > x.count)
        after  == SelectSeq(sorted, LAMBDA e : e.count <= x.count)
    IN  before \o <<x>> \o after

InsertRanked(sorted, x) ==
    LET before == SelectSeq(sorted, LAMBDA e : e.count >= x.count)
        after  == SelectSeq(sorted, LAMBDA e : e.count < x.count)
    IN  before \o <<x>> \o after

RECURSIVE SortRanked(_, _)
SortRanked(entries, acc) ==
    IF entries = <<>> THEN acc
    ELSE SortRanked(Tail(entries), InsertRanked(acc, Head(entries)))

\* Series.value_counts(): non-missing values, count descending, ties in
\* order of first appearance
value_counts(cells) ==
    LET u == Uniques(cells, <<>>)
    IN  SortRanked([i \in 1 .. Len(u) |->
                      [label |-> u[i], count |-> CountOf(cells, u[i])]], <<>>)

\* str(label) of a value of a column of the given dtype
Str(dtype, cell) == IF dtype = "float64" THEN cell \o <<".", "0">> ELSE cell

(***************************************************************************)
(* Charts                                                                  *)
(***************************************************************************)
NoLabels == <<>>

\* the histogram branch: title and mean line as each variant sets them
numeric_chart(v, col) ==
    [kind      |-> "hist",
     title     |-> IF v = "web" THEN clean_title(v, col.name) ELSE Strip(col.name),
     points    |-> Len(NonMissing(col.cells)),
     mean_line |-> TRUE,
     mean_val  |-> column_mean(col.cells),
     labels    |-> NoLabels,
     counts    |-> <<>>]

\* the bar chart branch
categorical_chart(v, col) ==
    LET counts == value_counts(col.cells)
    IN  [kind      |-> "bar",
         title     |-> clean_title(v, col.name),
         points    |-> Len(NonMissing(col.cells)),
         mean_line |-> FALSE,
         mean_val  |-> NaN,
         labels    |-> [i \in 1 .. Len(counts) |->
                          display_label(Str(col.dtype, counts[i].label))],
         counts    |-> [i \in 1 .. Len(counts) |-> counts[i].count]]

\* create_plot / the plot_* functions: the chart of one column
create_plot(v, col) ==
    IF IsNumberDtype(col.dtype) THEN numeric_chart(v, col)
    ELSE categorical_chart(v, col)

\* sns.histplot gets no finite value from such a column
HistplotUndefined(col) == IsNumberDtype(col.dtype) /\ NonMissing(col.cells) = <<>>

\* the columns charted before the first one whose histplot raises
RECURSIVE PlottedBeforeRaise(_)
PlottedBeforeRaise(cols) ==
    IF cols = <<>> \/ HistplotUndefined(Head(cols)) THEN <<>>
    ELSE <<Head(cols)>> \o PlottedBeforeRaise(Tail(cols))

priority_questions_unfiltered(v, d) == Take(d.columns, 4)

\* all_question_cols[:4]
priority_questions(v, d) == Take(all_question_cols(v, d), 4)

\* the columns each variant charts
charted_cols(v, d) ==
    IF v = "web" THEN priority_questions(v, d) ELSE all_question_cols(v, d)

plot_entry(v, col) ==
    [column   |-> col.name,
     question |-> Take(Strip(col.name), 60),
     plot     |-> create_plot(v, col)]

(***************************************************************************)
(* Cross-analysis (dashboard.py)                                           *)
(***************************************************************************)
BothPresent(c1, c2) ==
    {i \in 1 .. Len(c1.cells) : ~IsMissing(c1.cells[i]) /\ ~IsMissing(c2.cells[i])}

\* pd.crosstab(df[col1], df[col2]): counts over the rows holding both values
crosstab(c1, c2) ==
    LET rows == BothPresent(c1, c2)
        rcat == {c1.cells[i] : i \in rows}
        ccat == {c2.cells[i] : i \in rows}
    IN  [p \in rcat \X ccat |->
           Cardinality({i \in rows : c1.cells[i] = p[1] /\ c2.cells[i] = p[2]})]

\* sns.heatmap raises on a matrix without cells
HeatmapRaises(m) == DOMAIN m = {}

cross_title(c1, c2) ==
    Take(c1.name, 30) \o Ellipsis \o <<" ", "v", "s", " ">> \o Take(c2.name, 30)
        \o Ellipsis

\* create_cross_analysis: the bare except turns a raise into the placeholder
create_cross_analysis(c1, c2) ==
    LET m == crosstab(c1, c2)
    IN  [row          |-> c1.name,
         col          |-> c2.name,
         title        |-> cross_title(c1, c2),
         insufficient |-> HeatmapRaises(m),
         matrix       |-> m]

cross_pairs_skipping(n) ==
    IF n < 2 THEN <<>>
    ELSE IF n < 3 THEN <<<<1, 2>>>> ELSE <<<<1, 2>>, <<1, 3>>>>

\* the index pairs of categorical_cols that main() crosses
cross_pairs(n) ==
    IF n < 2 THEN <<>>
    ELSE IF n < 3 THEN <<<<1, 2>>>> ELSE <<<<1, 2>>, <<2, 3>>>>

cross_analysis(v, d) ==
    LET cats  == categorical_cols(v, d)
        pairs == cross_pairs(Len(cats))
    IN  [i \in 1 .. Len(pairs) |->
           create_cross_analysis(cats[pairs[i][1]], cats[pairs[i][2]])]

(***************************************************************************)
(* Metrics and insights                                                    *)
(***************************************************************************)
NoMetrics ==
    [total_responses |-> 0, latest |-> "unset", avg_reported |-> FALSE,
     avg_rating |-> NaN, avg_text |-> Format2f(NaN), total_questions |-> 0]

HasTimestamp(d) ==
    \E i \in 1 .. Len(d.columns) : d.columns[i].name \in {N_Timestamp, N_timestamp}

pooled_mean(cols) ==
    LET all == [i \in 1 .. Len(cols) |-> column_mean(cols[i].cells)]
        ok  == SelectSeq(all, LAMBDA f : ~IsNaN(f))
    IN  IF ok = <<>> THEN NaN
        ELSE <<FracSum([i \in 1 .. Len(ok) |-> <<ok[i][1], 1>>])[1],
               FracSum([i \in 1 .. Len(ok) |-> <<ok[i][2], 1>>])[1]>>

\* avg_rating of a table that has numeric question columns
average_rating(cols) == mean_of_means(cols)

\* one insight of app.py
insight(col, total) ==
    LET counts == value_counts(col.cells)
    IN  [question   |-> clean_question(col.name),
         top_answer |-> Str(col.dtype, counts[1].label),
         percentage |-> percentage(counts[1].count, total),
         count      |-> counts[1].count,
         total      |-> total]

\* the loop over all_question_cols: all-missing columns give no insight
insights(v, d) ==
    LET cols == SelectSeq(all_question_cols(v, d),
                          LAMBDA c : NonMissing(c.cells) # <<>>)
    IN  [i \in 1 .. Len(cols) |-> insight(cols[i], d.nrows)]

(***************************************************************************)
(* The handlers: dashboard() of app.py and main() of dashboard.py, one     *)
(* action per block of statements                                          *)
(***************************************************************************)
Variants == {"web", "streamlit"}

web_after_load_unchecked(d) == "metrics"

\* if df is None: return "<h1>Error loading survey data!</h1>..."
web_after_load(d) == IF d.loaded = "none" THEN "error_page" ELSE "metrics"

\* if df is None: st.stop()
st_after_load(d) == IF d.loaded = "none" THEN "stopped" ELSE "metrics"

Results == <<metrics, key_insights, plots, cross_tabs>>
Cached == <<cache, last_load>>
Pure == <<input, output>>

\* a script run or a request starts with nothing computed
StartRun ==
    /\ pc' = "load"
    /\ df' = Unset
    /\ steps' = {}
    /\ metrics' = NoMetrics
    /\ key_insights' = <<>>
    /\ plots' = <<>>
    /\ cross_tabs' = <<>>
    /\ UNCHANGED <<variant, sheet, input, output>>

\* the timestamp metric: pd.to_datetime raises or not
Latest(d, parsed) == IF HasTimestamp(d) /\ parsed THEN "date" ELSE "N/A"

WebLoad ==
    /\ variant = "web" /\ pc = "load"
    /\ \E fetched \in BOOLEAN :
         /\ df' = load_survey_data(sheet, fetched)
         /\ pc' = web_after_load(load_survey_data(sheet, fetched))
    /\ steps' = steps \cup {"load"}
    /\ UNCHANGED <<Cached, variant, sheet, Results, Pure>>

WebMetrics ==
    /\ variant = "web" /\ pc = "metrics"
    /\ steps' = steps \cup {"metrics"}
    /\ IF df.loaded # "frame"
       THEN pc' = "crashed" /\ UNCHANGED metrics
       ELSE /\ pc' = "insights"
            /\ \E parsed \in BOOLEAN :
                 metrics' = [metrics EXCEPT !.total_responses = df.nrows,
                                            !.latest = Latest(df, parsed)]
    /\ UNCHANGED <<Cached, variant, sheet, df, key_insights, plots, cross_tabs, Pure>>

WebInsights ==
    /\ variant = "web" /\ pc = "insights"
    /\ steps' = steps \cup {"insights"}
    /\ key_insights' = insights(variant, df)
    /\ pc' = "average"
    /\ UNCHANGED <<Cached, variant, sheet, df, metrics, plots, cross_tabs, Pure>>

WebAverage ==
    /\ variant = "web" /\ pc = "average"
    /\ steps' = steps \cup {"average"}
    /\ LET nums == numerical_cols(variant, df)
           avg  == IF nums # <<>> THEN average_rating(nums) ELSE <<0, 1>>
       IN  metrics' = [metrics EXCEPT
                         !.avg_reported = TRUE,
                         !.avg_rating = avg,
                         !.avg_text = Format2f(avg),
                         !.total_questions = Len(all_question_cols(variant, df))]
    /\ pc' = "plots"
    /\ UNCHANGED <<Cached, variant, sheet, df, key_insights, plots, cross_tabs, Pure>>

\* the plotting loop of either variant; an exception ends the run
PlotLoop(after) ==
    \E raises \in BOOLEAN :
      LET cols   == charted_cols(variant, df)
          before == PlottedBeforeRaise(cols)
          done   == IF raises THEN before ELSE cols
      IN  /\ plots' = [i \in 1 .. Len(done) |-> plot_entry(variant, done[i])]
          /\ pc' = IF Len(done) < Len(cols) THEN "crashed" ELSE after

WebPlots ==
    /\ variant = "web" /\ pc = "plots"
    /\ steps' = steps \cup {"plots"}
    /\ PlotLoop("render")
    /\ UNCHANGED <<Cached, variant, sheet, df, metrics, key_insights, cross_tabs, Pure>>

WebRender ==
    /\ variant = "web" /\ pc = "render"
    /\ steps' = steps \cup {"render"}
    /\ key_insights' = Take(key_insights, 6)
    /\ pc' = "rendered"
    /\ UNCHANGED <<Cached, variant, sheet, df, metrics, plots, cross_tabs, Pure>>

\* the rendered page reloads itself; the error page is a bare string
WebAutoRefresh ==
    /\ variant = "web" /\ pc = "rendered"
    /\ StartRun
    /\ UNCHANGED Cached

StLoad ==
    /\ variant = "streamlit" /\ pc = "load"
    /\ IF cache_valid(cache)
       THEN /\ df' = cache.value
            /\ cache' = cache
            /\ last_load' = Hit(cache)
       ELSE \E fetched \in BOOLEAN :
              /\ df' = load_survey_data(sheet, fetched)
              /\ cache' = Stored(load_survey_data(sheet, fetched))
              /\ last_load' = Fetch(cache)
    /\ pc' = st_after_load(df')
    /\ steps' = steps \cup {"load"}
    /\ UNCHANGED <<variant, sheet, Results, Pure>>

StMetrics ==
    /\ variant = "streamlit" /\ pc = "metrics"
    /\ steps' = steps \cup {"metrics"}
    /\ IF df.loaded # "frame"
       THEN pc' = "crashed" /\ UNCHANGED metrics
       ELSE /\ pc' = "plots"
            /\ \E parsed \in BOOLEAN :
                 LET nums == numerical_cols(variant, df)
                     avg  == IF nums # <<>> THEN average_rating(nums) ELSE NaN
                 IN  metrics' =
                       [total_responses |-> df.nrows,
                        latest          |-> Latest(df, parsed),
                        avg_reported    |-> nums # <<>>,
                        avg_rating      |-> avg,
                        avg_text        |-> Format2f(avg),
                        total_questions |-> Len(all_question_cols(variant, df))]
    /\ UNCHANGED <<Cached, variant, sheet, df, key_insights, plots, cross_tabs, Pure>>

StPlots ==
    /\ variant = "streamlit" /\ pc = "plots"
    /\ steps' = steps \cup {"plots"}
    /\ PlotLoop("cross")
    /\ UNCHANGED <<Cached, variant, sheet, df, metrics, key_insights, cross_tabs, Pure>>

StCross ==
    /\ variant = "streamlit" /\ pc = "cross"
    /\ steps' = steps \cup {"cross"}
    /\ cross_tabs' = cross_analysis(variant, df)
    /\ pc' = "summary"
    /\ UNCHANGED <<Cached, variant, sheet, df, metrics, key_insights, plots, Pure>>

\* the summary and raw-data expanders and the caption
StSummary ==
    /\ variant = "streamlit" /\ pc = "summary"
    /\ steps' = steps \cup {"summary"}
    /\ pc' = "sleep"
    /\ UNCHANGED <<Cached, variant, sheet, df, Results, Pure>>

\* time.sleep(10); st.rerun()
StSleepRerun ==
    /\ variant = "streamlit" /\ pc = "sleep"
    /\ StartRun
    /\ cache' = Older(cache, SleepSeconds)
    /\ UNCHANGED last_load

\* a click on a download button or a reload of the page during the sleep
\* starts the script again at once
StInteract ==
    /\ variant = "streamlit" /\ pc = "sleep"
    /\ StartRun
    /\ \E seconds \in 0 .. SleepSeconds - 1 : cache' = Older(cache, seconds)
    /\ UNCHANGED last_load

\* a second passes on a page whose script has ended
Tick ==
    /\ variant = "streamlit" /\ pc \in {"stopped", "crashed"}
    /\ cache.present /\ cache.age <= TTL
    /\ cache' = Older(cache, 1)
    /\ UNCHANGED <<variant, sheet, pc, df, steps, Results, Pure, last_load>>

Ended == pc \in {"rendered", "error_page", "crashed", "stopped"}

\* somebody reloads the page: the only way out of a run that has ended
\* without scheduling the next one
ManualReload ==
    /\ Ended
    /\ StartRun
    /\ UNCHANGED Cached

Program ==
    \/ WebLoad \/ WebMetrics \/ WebInsights \/ WebAverage \/ WebPlots
    \/ WebRender \/ WebAutoRefresh
    \/ StLoad \/ StMetrics \/ StPlots \/ StCross \/ StSummary \/ StSleepRerun

Next == Program \/ ManualReload

\* the same, with the seconds that pass between two loads
NextCache == Next \/ StInteract \/ Tick

(***************************************************************************)
(* The sheets the source feed may hold                                     *)
(***************************************************************************)
MaxRows == 3
MaxNumRows == 2
MaxWideCols == 6
MaxCatCols == 4

QName(i) == <<"Q", Digits[i + 1]>>
TrickyNames ==
    <<N_Timestamp, N_Age, N_email, N_age, N_Name, N_AgeSp, N_Email, N_EMAIL>>
TrickyName(i) == TrickyNames[((i - 1) % Len(TrickyNames)) + 1]

Headers(n) ==
    {[i \in 1 .. n |-> IF ch[i] THEN TrickyName(i) ELSE QName(i)] :
       ch \in [1 .. n -> BOOLEAN]}
OneTrickyHeaders(n) ==
    {[i \in 1 .. n |-> IF i = t THEN TrickyName(i) ELSE QName(i)] : t \in 0 .. n}

MkSheet(h, cs) == [i \in 1 .. Len(h) |-> [name |-> h[i], cells |-> cs[i]]]

CellPool == {<<>>, <<"1">>, <<"2">>, <<"a">>, <<"b">>}
NumPool == {<<>>, <<"1">>, <<"2">>}
CatVectors == {<<<<"a">>, <<>>>>, <<<<>>, <<"b">>>>, <<<<"a">>, <<"b">>>>,
               <<<<"1">>, <<"2">>>>}

\* one column, every mix of cells
SingleSheets ==
    UNION {{MkSheet(h, <<cs>>) : h \in Headers(1), cs \in [1 .. r -> CellPool]} :
             r \in 1 .. MaxRows}
\* two columns of ratings
NumericSheets ==
    UNION {{MkSheet(h, cs) : h \in Headers(2),
                             cs \in [1 .. 2 -> [1 .. r -> NumPool]]} :
             r \in 1 .. MaxNumRows}
\* many columns, one response
WideSheets ==
    UNION {{MkSheet(h, [i \in 1 .. n |-> <<fill>>]) :
              h \in Headers(n), fill \in {<<"1">>, <<"a">>}} :
             n \in 1 .. MaxWideCols}
\* several text columns, two responses
CrossSheets ==
    UNION {{MkSheet(h, cs) : h \in OneTrickyHeaders(n),
                             cs \in [1 .. n -> CatVectors]} :
             n \in 2 .. MaxCatCols}

Sheets == {<<>>} \cup SingleSheets \cup NumericSheets \cup WideSheets
              \cup CrossSheets

InitRun ==
    /\ variant \in Variants
    /\ pc = "load"
    /\ df = Unset
    /\ steps = {}
    /\ metrics = NoMetrics
    /\ key_insights = <<>>
    /\ plots = <<>>
    /\ cross_tabs = <<>>
    /\ input = <<>>
    /\ output = <<>>
    /\ cache = Empty
    /\ last_load = NoLoad

Init == sheet \in Sheets /\ InitRun

Spec == Init /\ [][Next]_vars

\* every statement of a running handler is executed; nobody is bound to
\* reload the page
InitLive == sheet \in ({<<>>} \cup WideSheets) /\ InitRun

FairSpec == InitLive /\ [][Next]_vars /\ WF_vars(Program)

\* the cached loader over time: loads at every age of the stored result
InitCache == sheet \in ({<<>>} \cup SingleSheets) /\ InitRun

SpecCache == InitCache /\ [][NextCache]_vars

(***************************************************************************)
(* The pure functions, applied to inputs of their own                      *)
(***************************************************************************)
MaxMid == 3
MaxLabelLen == 55
MaxTotal == 50

InitIdle ==
    /\ sheet = <<>>
    /\ df = Unset
    /\ steps = {}
    /\ metrics = NoMetrics
    /\ key_insights = <<>>
    /\ plots = <<>>
    /\ cross_tabs = <<>>
    /\ output = <<>>
    /\ cache = Empty
    /\ last_load = NoLoad

Idle == <<sheet, df, steps, metrics, key_insights, plots, cross_tabs, Cached>>

Tokens == {<<SP>>, <<"a">>, <<FFFD>>, Mojibake}

RECURSIVE Flatten(_)
Flatten(ts) == IF ts = <<>> THEN <<>> ELSE Head(ts) \o Flatten(Tail(ts))

Pad(k) == [i \in 1 .. k |-> "x"]
PadLens == {0} \cup ((TitleLimit - 6) .. TitleLimit)

Titles ==
    {lead \o <<"a">> \o Flatten(mid) \o Pad(k) \o trail :
       lead \in {<<>>, <<SP>>}, trail \in {<<>>, <<SP>>}, k \in PadLens,
       mid \in UNION {[1 .. n -> Tokens] : n \in 0 .. MaxMid}}

InitTitle ==
    /\ variant \in Variants
    /\ pc = "title"
    /\ input \in Titles
    /\ InitIdle

CleanTitleOnce ==
    /\ pc = "title"
    /\ output' = <<clean_title(variant, input)>>
    /\ pc' = "once"
    /\ UNCHANGED <<variant, input, Idle>>

CleanTitleAgain ==
    /\ pc = "once"
    /\ output' = Append(output, clean_title(variant, output[1]))
    /\ pc' = "twice"
    /\ UNCHANGED <<variant, input, Idle>>

NextTitle == CleanTitleOnce \/ CleanTitleAgain

SpecTitle == InitTitle /\ [][NextTitle]_vars

Labels ==
    {[i \in 1 .. k |-> Digits[(i % 10) + 1]] \o <<c>> :
       k \in 0 .. MaxLabelLen, c \in {"a", "b", SP}}

InitLabel ==
    /\ variant \in Variants
    /\ pc = "label"
    /\ input \in Labels
    /\ InitIdle

DisplayLabel ==
    /\ pc = "label"
    /\ output' = display_label(input)
    /\ pc' = "labelled"
    /\ UNCHANGED <<variant, input, Idle>>

SpecLabel == InitLabel /\ [][DisplayLabel]_vars

InitPercentage ==
    /\ variant = "web"
    /\ pc = "percentage"
    /\ input \in {<<a, b>> : a \in 1 .. MaxTotal, b \in 1 .. MaxTotal}
    /\ input[1] <= input[2]
    /\ InitIdle

ComputePercentage ==
    /\ pc = "percentage"
    /\ output' = <<percentage(input[1], input[2])>>
    /\ pc' = "computed"
    /\ UNCHANGED <<variant, input, Idle>>

SpecPercentage == InitPercentage /\ [][ComputePercentage]_vars

(***************************************************************************)
(* Properties                                                              *)
(***************************************************************************)
ErrorState == IF variant = "web" THEN "error_page" ELSE "stopped"

\* C1: when load_survey_data returns None the run ends in the variant's one
\* error state with only the load executed: no chart, no insight, no
\* cross-tab, no metric, and neither a partial page nor a crash.
C1_LoadFailureShortCircuits ==
    df.loaded = "none" =>
        /\ pc = ErrorState
        /\ steps = {"load"}
        /\ plots = <<>>
        /\ key_insights = <<>>
        /\ cross_tabs = <<>>
        /\ metrics = NoMetrics

\* the fetch of a sheet that holds data has failed
C1_Witness == df.loaded = "none" /\ sheet # <<>> /\ pc = "error_page"

\* C2: after a run whose load failed, the pipeline is run again (a new load
\* starts) without anybody reloading the page.
C2_FailedLoadIsRetried == (df.loaded = "none") ~> (pc = "load")

\* C3: title cleanup is idempotent: cleaning a cleaned title changes nothing.
C3_CleanupIdempotent == pc = "twice" => output[2] = output[1]

\* C4: a label longer than 50 characters is shown as its first 47 characters
\* and the ellipsis, so that no shown label exceeds 50 characters; a label of
\* at most 50 characters is shown unchanged.
C4_LabelWithinFifty ==
    pc = "labelled" =>
        IF Len(input) > 50
        THEN output = SubSeq(input, 1, 47) \o <<".", ".", ".">> /\ Len(output) <= 50
        ELSE output = input

\* C5: the chart of a numeric column without any value is built without
\* raising and draws no mean line.
C5_AllMissingNumericChart ==
    /\ pc # "crashed"
    /\ \A i \in 1 .. Len(plots) :
         (plots[i].plot.kind = "hist" /\ plots[i].plot.points = 0)
             => ~plots[i].plot.mean_line

\* the sum of the first n entries of a sequence of numbers
RECURSIVE Total(_, _)
Total(f, n) == IF n = 0 THEN 0 ELSE f[n] + Total(f, n - 1)

RECURSIVE Product(_, _)
Product(f, n) == IF n = 0 THEN 1 ELSE f[n] * Product(f, n - 1)

Present(col) == {r \in 1 .. Len(col.cells) : col.cells[r] # <<>>}
ColCount(col) == Cardinality(Present(col))
ColSum(col) ==
    Total([r \in 1 .. Len(col.cells) |->
             IF r \in Present(col) THEN NumVal(col.cells[r], 0) ELSE 0],
          Len(col.cells))

\* the non-excluded numeric columns of the loaded table
RatedCols ==
    SelectSeq(df.columns,
              LAMBDA c : c.dtype \in {"int64", "float64"}
                         /\ ~\E e \in excluded_cols(variant) : e = c.name)

\* avg is the mean of the means of the columns cols, each of which has a value
IsMeanOfMeans(avg, cols) ==
    LET counts == [i \in 1 .. Len(cols) |-> ColCount(cols[i])]
        all    == Product(counts, Len(cols))
        scaled == [i \in 1 .. Len(cols) |-> ColSum(cols[i]) * (all \div counts[i])]
    IN  /\ avg[2] > 0
        /\ avg[1] * Len(cols) * all = avg[2] * Total(scaled, Len(cols))

\* the average rating has been computed in this run
AverageDone ==
    IF variant = "web" THEN "average" \in steps
    ELSE "metrics" \in steps /\ df.loaded = "frame"

C7_PercentageIsFloor ==
    pc = "computed" => output[1] = (100 * input[1]) \div input[2]

\* the column of the loaded table with the given name
ColumnNamed(name) ==
    df.columns[CHOOSE i \in 1 .. Len(df.columns) : df.columns[i].name = name]

FirstIndex(cells, v) ==
    CHOOSE r \in 1 .. Len(cells) :
        cells[r] = v /\ \A q \in 1 .. Len(cells) : cells[q] = v => r <= q

\* the ranked list of a bar chart, against the cells of its column
RankedAsClaimed(chart, cells) ==
    LET n == Len(chart.labels)
    IN  /\ Len(chart.counts) = n
        /\ {chart.labels[i] : i \in 1 .. n}
             = {cells[r] : r \in {q \in 1 .. Len(cells) : cells[q] # <<>>}}
        /\ \A i, j \in 1 .. n : i # j => chart.labels[i] # chart.labels[j]
        /\ \A i \in 1 .. n :
             chart.counts[i]
               = Cardinality({r \in 1 .. Len(cells) : cells[r] = chart.labels[i]})
        /\ \A i, j \in 1 .. n :
             i < j =>
               /\ chart.counts[i] >= chart.counts[j]
               /\ chart.counts[i] = chart.counts[j]
                    => FirstIndex(cells, chart.labels[i])
                         < FirstIndex(cells, chart.labels[j])

WebExcluded ==
    {N_timestamp, N_Timestamp, N_EmailAddress, N_email, N_Email, N_Name, N_Age,
     N_AgeSp, N_Resident}

\* the names of the loaded table that equal no excluded name, in table order
QuestionNames ==
    SelectSeq([i \in 1 .. Len(df.columns) |-> df.columns[i].name],
              LAMBDA n : ~\E e \in WebExcluded : e = n)

PlottedNames == [i \in 1 .. Len(plots) |-> plots[i].column]

IsPrefix(s, t) == Len(s) <= Len(t) /\ s = SubSeq(t, 1, Len(s))

\* C9: the web variant charts exactly the first min(4, k) of the k columns
\* whose name equals no excluded name (case-sensitive), in table order, and
\* counts all k as questions.
C9_ChartCap ==
    (variant = "web" /\ df.loaded = "frame") =>
        LET k     == Len(QuestionNames)
            first == SubSeq(QuestionNames, 1, IF k < 4 THEN k ELSE 4)
        IN  /\ IsPrefix(PlottedNames, first)
            /\ pc \in {"render", "rendered"} => PlottedNames = first
            /\ "average" \in steps => metrics.total_questions = k

\* five questions after an excluded column, one of them named like an excluded
\* column but for its case
C9_Witness ==
    /\ variant = "web" /\ pc = "rendered"
    /\ Len(QuestionNames) = 5
    /\ Len(plots) = 4
    /\ df.columns[1].name = N_Timestamp
    /\ \E i \in 1 .. Len(plots) : plots[i].column = N_age
    /\ metrics.total_questions = 5

\* the non-excluded text columns of the loaded table, in table order
TextCols ==
    SelectSeq(df.columns,
              LAMBDA c : c.dtype \notin {"int64", "float64"}
                         /\ ~\E e \in excluded_cols(variant) : e = c.name)

NoSharedRow(a, b) ==
    ~\E r \in 1 .. Len(a.cells) : a.cells[r] # <<>> /\ b.cells[r] # <<>>

\* C10: the Streamlit variant crosses the first with the second non-excluded
\* categorical column and, when there is a third, the second with the third:
\* none below two such columns, one for two, two for three or more; a pair
\* without a count matrix gives the placeholder and the run goes on.
C10_CrossTabs ==
    (variant = "streamlit" /\ "cross" \in steps) =>
        LET n == Len(TextCols)
        IN  /\ Len(cross_tabs) = IF n < 2 THEN 0 ELSE IF n = 2 THEN 1 ELSE 2
            /\ n >= 2 => /\ cross_tabs[1].row = TextCols[1].name
                         /\ cross_tabs[1].col = TextCols[2].name
                         /\ cross_tabs[1].insufficient
                              <=> NoSharedRow(TextCols[1], TextCols[2])
            /\ n >= 3 => /\ cross_tabs[2].row = TextCols[2].name
                         /\ cross_tabs[2].col = TextCols[3].name
                         /\ cross_tabs[2].insufficient
                              <=> NoSharedRow(TextCols[2], TextCols[3])
            /\ pc \in {"summary", "sleep"}

\* four categorical columns: the first pair has no count matrix, the second
\* has one, and the run has gone on to its end
C10_Witness ==
    /\ variant = "streamlit" /\ pc = "sleep"
    /\ Len(TextCols) = 4
    /\ Len(cross_tabs) = 2
    /\ cross_tabs[1].insufficient
    /\ ~cross_tabs[2].insufficient

\* C11: a load requested less than the TTL after the last fetch is answered
\* with the stored result and no fetch; a load that finds the stored result
\* older than the TTL, or finds none, fetches; so a served result is never
\* older than the TTL and two fetches are never less than the TTL apart.
C11_CacheTTL ==
    /\ (last_load.kind # "none" /\ last_load.present /\ last_load.age < 10)
           => last_load.kind = "hit"
    /\ (last_load.kind # "none" /\ (~last_load.present \/ last_load.age > 10))
           => last_load.kind = "fetch"
    /\ last_load.kind = "hit" => (last_load.present /\ last_load.age <= 10)
    /\ (last_load.kind = "fetch" /\ last_load.present) => last_load.age >= 10
    /\ (variant = "streamlit" /\ df.loaded # "unset")
           => (cache.present /\ df = cache.value)

\* a table fetched nine seconds ago is served again, and not fetched
C11_Witness ==
    /\ last_load.kind = "hit"
    /\ last_load.age = 9
    /\ df.loaded = "frame"
    /\ pc = "metrics"

====
